---- MODULE Spec2Model ----
(***************************************************************************)
(* A model of the digikey catalog scraper: the search parameters           *)
(* (param.py, category.py SortParam), and the paginated category search    *)
(* (category.py Category.search / _get_parts).                             *)
(***************************************************************************)
EXTENDS Integers, Sequences, FiniteSets, TLC

VARIABLES
    \* the parameter specification (SpecParam)
    self,           \* the object under test: a Param (SpecParam), a Part (SpecRow)
    built,          \* the markup the object was constructed from
    call,           \* the last method called on self
    arg,            \* the argument of that call
    ret,            \* what the call returned or raised
    \* the category search specification (Spec)
    params,         \* Category.params: NotLoaded, or the discovered parameters
    pc,             \* where the generator Category.search(...) stands
    running,        \* the consumer's next() is executing the generator
    param_values,   \* argument of Category.search
    filter_qty,     \* argument of Category.search
    qty,            \* local of Category.search
    page,           \* local of Category.search: the page counter
    doc,            \* local of Category.search: the document last fetched
    row,            \* rows of doc that _get_parts has taken up
    tr,             \* the row _get_parts took up last
    outcome,        \* what became of tr: "yield", "skip" or "raise"
    out,            \* the Part just yielded to the consumer, with its origin
    exc,            \* the exception that ended the generator
    fetches,        \* the queries this search has sent to session.get_doc
    text_read,      \* history: span.current-page of doc has been read
    resultN,        \* history: the N of "page k of N" while all pages agree
    discoveries     \* history: the times _get_addl_params has fetched its document

pvars == <<self, built, call, arg, ret>>
svars == <<params, pc, running, param_values, filter_qty, qty, page, doc, row, tr,
           outcome, out, exc, fetches, text_read, resultN, discoveries>>
vars == <<pvars, svars>>

(***************************************************************************)
(* Bounds of the model.                                                    *)
(***************************************************************************)
MaxOptions == 2     \* <option> elements of a filter's <select>
MaxSortCells == 2   \* cells of the sort-button row of the product table
MaxPages == 3       \* pages a result set reports
MaxRows == 2        \* rows of one page's results table

(***************************************************************************)
(* Python values, tagged by type.                                          *)
(***************************************************************************)
None == [t |-> "None"]
PyBool(b) == [t |-> "bool", b |-> b]
PyInt(n) == [t |-> "int", n |-> n]
PyStr(s) == [t |-> "str", s |-> s]
PySet(S) == [t |-> "set", elems |-> S]
PyList(q) == [t |-> "list", items |-> q]
PyTuple(q) == [t |-> "tuple", parts |-> q]

EmptyDict == [k \in {} |-> 0]

\* bool(value)
Truthy(v) ==
    CASE v.t = "None" -> FALSE
      [] v.t = "bool" -> v.b
      [] v.t = "int" -> v.n # 0
      [] v.t = "str" -> v.s # ""
      [] v.t = "set" -> v.elems # {}
      [] v.t = "list" -> v.items # << >>
      [] v.t = "tuple" -> v.parts # << >>

\* isinstance(value, int): bool is a subclass of int
IsInt(v) == v.t \in {"int", "bool"}

IntOf(v) == IF v.t = "bool" THEN (IF v.b THEN 1 ELSE 0) ELSE v.n

\* value == other, for the comparisons "value in (None, False, True)" makes
PyEq(v, w) ==
    IF IsInt(v) /\ IsInt(w) THEN IntOf(v) = IntOf(w) ELSE v = w

\* iter(value) succeeds
Iterable(v) == v.t \in {"str", "set", "list", "tuple"}

\* hash(value) succeeds
Hashable(v) ==
    CASE v.t \in {"set", "list"} -> FALSE
      [] v.t = "tuple" ->
            \A i \in 1..Len(v.parts) : v.parts[i].t \notin {"set", "list"}
      [] OTHER -> TRUE

(***************************************************************************)
(* Outcomes of a call.                                                     *)
(***************************************************************************)
Raise(e) == [st |-> "raise", exc |-> e]
Bool(b) == [st |-> "ok", res |-> b]
KV(k, v) == [st |-> "ok", key |-> k, val |-> v]
NoKV == KV(None, None)

(***************************************************************************)
(* Param objects: title, name, default; Filter adds options (and           *)
(* option_titles, the key set of options); SortParam adds by.              *)
(***************************************************************************)
Param_init(kind, title, name, default) ==
    [kind |-> kind, title |-> title, name |-> name, default |-> default,
     options |-> EmptyDict, by |-> EmptyDict]

\* {o.text.strip(): o.attrs['value'] for o in select.find_all('option')}:
\* a later option with the same label replaces the earlier one
RECURSIVE OptionsDict(_, _)
OptionsDict(opts, d) ==
    IF opts = << >> THEN d
    ELSE LET o == Head(opts)
             rest == [k \in DOMAIN d \ {o[1]} |-> d[k]]
         IN  OptionsDict(Tail(opts), rest @@ (o[1] :> o[2]))

Filter_init(head, select, default) ==
    [kind |-> "Filter", title |-> head, name |-> select.name, default |-> default,
     options |-> OptionsDict(select.opts, [k \in {} |-> ""]), by |-> EmptyDict]

option_titles(p) == DOMAIN p.options

Min(a, b) == IF a < b THEN a ELSE b

\* The loop of SortParam.__init__ over zip(heads, cells), from pair i on:
\* the dict built, or the assertion that failed.
RECURSIVE SortCodes(_, _, _, _)
SortCodes(heads, cells, i, by) ==
    IF i > Min(Len(heads), Len(cells)) THEN [st |-> "ok", by |-> by]
    ELSE LET cell == cells[i] IN
         IF ~cell.button THEN SortCodes(heads, cells, i + 1, by)
         ELSE IF ~cell.up THEN Raise("AssertionError")
         ELSE IF ~(cell.code > 0) THEN Raise("AssertionError")
         ELSE SortCodes(heads, cells, i + 1,
                        [k \in DOMAIN by \ {heads[i]} |-> by[k]] @@ (heads[i] :> cell.code))

SortParam_init(heads, title, cells, default) ==
    LET r == SortCodes(heads, cells, 1, EmptyDict) IN
    IF r.st = "raise" THEN r
    ELSE [st |-> "ok",
          obj |-> [kind |-> "SortParam", title |-> title, name |-> "ColumnSort",
                   default |-> default, options |-> EmptyDict, by |-> r.by]]

(***************************************************************************)
(* validate                                                                *)
(***************************************************************************)
Param_validate(p, value) == Bool(TRUE)

BoolParam_validate(p, value) ==
    Bool(PyEq(value, None) \/ PyEq(value, PyBool(FALSE)) \/ PyEq(value, PyBool(TRUE)))

\* mutant: "value >= 0" not tested
UIntParam_validate_Signed(p, value) ==
    Bool(value = None \/ IsInt(value))

\* mutant: the "value is None" alternative dropped
UIntParam_validate_NoNone(p, value) ==
    Bool(IsInt(value) /\ IntOf(value) >= 0)

UIntParam_validate(p, value) ==
    Bool(value = None \/ (IsInt(value) /\ IntOf(value) >= 0))

MultiParam_validate(p, value) ==
    IF value = None THEN Bool(TRUE)
    ELSE IF Iterable(value) THEN Bool(TRUE)
    ELSE Bool(FALSE)

\* mutant: the override missing, MultiParam.validate inherited
Filter_validate_Inherited(p, value) == MultiParam_validate(p, value)

Filter_validate(p, value) ==
    IF value = None THEN Bool(TRUE)
    ELSE Bool(value.t = "set" /\ (value.elems \ option_titles(p)) = {})

SortParam_validate(p, value) ==
    IF value = None THEN Bool(TRUE)
    ELSE IF value.t # "tuple" \/ Len(value.parts) # 2 THEN Bool(FALSE)
    ELSE LET by == value.parts[1]
             dirn == value.parts[2]
         IN  IF ~Hashable(by) THEN Raise("TypeError")
             ELSE Bool(by.t = "str" /\ by.s \in DOMAIN p.by /\ dirn.t = "bool")

\* method resolution: ROHSParam inherits BoolParam.validate
validate(p, value) ==
    CASE p.kind = "Param" -> Param_validate(p, value)
      [] p.kind \in {"BoolParam", "ROHSParam"} -> BoolParam_validate(p, value)
      [] p.kind = "UIntParam" -> UIntParam_validate(p, value)
      [] p.kind = "MultiParam" -> MultiParam_validate(p, value)
      [] p.kind = "Filter" -> Filter_validate(p, value)
      [] p.kind = "SortParam" -> SortParam_validate(p, value)

(***************************************************************************)
(* qp_kv                                                                   *)
(***************************************************************************)
\* mutant: the default not consulted, only a supplied value encoded
Param_qp_kv_Supplied(p, value) ==
    IF value # None THEN KV(PyStr(p.name), value) ELSE NoKV

Param_qp_kv(p, value0) ==
    LET value == IF value0 = None THEN p.default ELSE value0 IN
    IF value # None THEN KV(PyStr(p.name), value) ELSE NoKV

BoolParam_qp_kv(p, value0) ==
    LET value == IF value0 = None THEN p.default ELSE value0 IN
    IF value # None THEN KV(PyStr(p.name), PyInt(IF Truthy(value) THEN 1 ELSE 0))
    ELSE NoKV

\* mutant: "if not value" in place of "if value is None" for the default
ROHSParam_qp_kv_Falsy(p, value0) ==
    LET value == IF ~Truthy(value0) THEN p.default ELSE value0 IN
    IF value = None THEN NoKV
    ELSE LET name == IF ~Truthy(value) THEN "non" \o p.name ELSE p.name
         IN  KV(PyStr(name), PyStr("1"))

ROHSParam_qp_kv(p, value0) ==
    LET value == IF value0 = None THEN p.default ELSE value0 IN
    IF value = None THEN NoKV
    ELSE LET name == IF ~Truthy(value) THEN "non" \o p.name ELSE p.name
         IN  KV(PyStr(name), PyStr("1"))

\* The keys "for v in value" looks up in self.options, in iteration order;
\* a str iterates its characters, which are no option label here.
LookupKeys(value) ==
    CASE value.t = "set" -> [st |-> "ok", keys |-> value.elems]
      [] value.t = "list" -> [st |-> "ok", keys |-> {value.items[i] : i \in 1..Len(value.items)}]
      [] value.t = "tuple" ->
            IF \E i \in 1..Len(value.parts) : ~Hashable(value.parts[i]) THEN Raise("TypeError")
            ELSE IF \E i \in 1..Len(value.parts) : value.parts[i].t # "str" THEN Raise("KeyError")
            ELSE [st |-> "ok", keys |-> {value.parts[i].s : i \in 1..Len(value.parts)}]
      [] value.t = "str" -> Raise("KeyError")
      [] OTHER -> Raise("TypeError")

Filter_qp_kv(p, value0) ==
    LET value == IF value0 = None THEN p.default ELSE value0 IN
    IF Truthy(value)
    THEN LET ks == LookupKeys(value) IN
         IF ks.st = "raise" THEN ks
         ELSE IF ~(ks.keys \subseteq DOMAIN p.options) THEN Raise("KeyError")
         ELSE KV(PyStr(p.name), PySet({p.options[v] : v \in ks.keys}))
    ELSE NoKV

\* "title, dirn = value"
Unpack2(value) ==
    CASE value.t \in {"None", "int", "bool"} -> Raise("TypeError")
      [] value.t = "tuple" ->
            IF Len(value.parts) = 2 THEN [st |-> "ok", a |-> value.parts[1], b |-> value.parts[2]]
            ELSE Raise("ValueError")
      [] value.t = "list" ->
            IF Len(value.items) = 2
            THEN [st |-> "ok", a |-> PyStr(value.items[1]), b |-> PyStr(value.items[2])]
            ELSE Raise("ValueError")
      [] value.t = "set" ->
            IF Cardinality(value.elems) = 2
            THEN LET x == CHOOSE x \in value.elems : TRUE
                 IN  [st |-> "ok", a |-> PyStr(x), b |-> PyStr(CHOOSE y \in value.elems : y # x)]
            ELSE Raise("ValueError")
      [] value.t = "str" -> Raise("ValueError")

\* mutant: the direction ignored, the code never negated
SortParam_qp_kv_NoNegate(p, value0) ==
    LET value == IF value0 = None THEN p.default ELSE value0
        u == Unpack2(value)
    IN  IF u.st = "raise" THEN u
        ELSE IF ~Hashable(u.a) THEN Raise("TypeError")
        ELSE IF ~(u.a.t = "str" /\ u.a.s \in DOMAIN p.by) THEN Raise("KeyError")
        ELSE KV(PyStr(p.name), PyInt(p.by[u.a.s]))

SortParam_qp_kv(p, value0) ==
    LET value == IF value0 = None THEN p.default ELSE value0
        u == Unpack2(value)
    IN  IF u.st = "raise" THEN u
        ELSE IF ~Hashable(u.a) THEN Raise("TypeError")
        ELSE IF ~(u.a.t = "str" /\ u.a.s \in DOMAIN p.by) THEN Raise("KeyError")
        ELSE LET code == p.by[u.a.s]
             IN  KV(PyStr(p.name), PyInt(IF ~Truthy(u.b) THEN -code ELSE code))

\* method resolution: UIntParam, MultiParam inherit Param.qp_kv
qp_kv(p, value) ==
    CASE p.kind \in {"Param", "UIntParam", "MultiParam"} -> Param_qp_kv(p, value)
      [] p.kind = "BoolParam" -> BoolParam_qp_kv(p, value)
      [] p.kind = "ROHSParam" -> ROHSParam_qp_kv(p, value)
      [] p.kind = "Filter" -> Filter_qp_kv(p, value)
      [] p.kind = "SortParam" -> SortParam_qp_kv(p, value)

(***************************************************************************)
(* The parameter specification: a Param object of any kind, constructed    *)
(* from bounded markup, with validate and qp_kv called on it.              *)
(***************************************************************************)
Heads == <<"Unit Price", "Part Status">>
Labels == {"Active", "Obsolete"}
Codes == {"0", "1"}

SimpleKinds == {"Param", "BoolParam", "UIntParam", "MultiParam", "ROHSParam"}
SimpleDefaults == {None, PyBool(TRUE), PyBool(FALSE), PyInt(1)}
NameOf(kind) ==
    CASE kind = "Param" -> "pkeyword"
      [] kind = "BoolParam" -> "stock"
      [] kind = "UIntParam" -> "quantity"
      [] kind = "MultiParam" -> "k"
      [] kind = "ROHSParam" -> "rohs"

OptionSeqs == UNION {[1..n -> Labels \X Codes] : n \in 0..MaxOptions}
Selects == {[name |-> "pv1989", opts |-> o] : o \in OptionSeqs}
\* a Filter's default is None or a set of its own option labels
FilterDefaults(select) ==
    {None} \cup {PySet(S) : S \in SUBSET {select.opts[i][1] : i \in 1..Len(select.opts)}}

SortButtons ==
    {[button |-> FALSE, up |-> TRUE, code |-> 0], [button |-> TRUE, up |-> FALSE, code |-> 1]}
      \cup {[button |-> TRUE, up |-> TRUE, code |-> c] : c \in {-1, 0, 1, 2}}
SortCellSeqs == UNION {[1..n -> SortButtons] : n \in 0..MaxSortCells}
SortDefaults == {None, PyTuple(<<PyStr("Unit Price"), PyBool(TRUE)>>)}

SortValues ==
    {PyTuple(<<PyStr(c), PyBool(b)>>) : c \in {"Unit Price", "Part Status", "Nope"}, b \in BOOLEAN}
      \cup {PyTuple(<<PyStr("Unit Price"), PyInt(1)>>),
            PyTuple(<<PyStr("Unit Price")>>),
            PyTuple(<<PyList(<<"Unit Price">>), PyBool(TRUE)>>)}
Values ==
    {None, PyBool(TRUE), PyBool(FALSE), PyInt(-1), PyInt(0), PyInt(1), PyInt(25),
     PyStr(""), PyStr("Active"), PyList(<< >>), PyList(<<"Active">>),
     PyList(<<"Active", "Obsolete">>), PyTuple(<<PyStr("Active")>>)}
      \cup {PySet(S) : S \in SUBSET (Labels \cup {"Bogus"})}
      \cup SortValues

PInit ==
    /\ call = "none" /\ arg = None /\ ret = None
    /\ \/ \E k \in SimpleKinds, d \in SimpleDefaults :
            /\ self = Param_init(k, k, NameOf(k), d)
            /\ built = None
       \/ \E s \in Selects : \E d \in FilterDefaults(s) :
            /\ self = Filter_init("Part Status", s, d)
            /\ built = s
       \/ \E cells \in SortCellSeqs, d \in SortDefaults :
            LET r == SortParam_init(Heads, "Ascending/Descending", cells, d) IN
            /\ r.st = "ok"
            /\ self = r.obj
            /\ built = [cells |-> cells]

CallValidate ==
    \E value \in Values :
        /\ call' = "validate"
        /\ arg' = value
        /\ ret' = validate(self, value)
        /\ UNCHANGED <<self, built>>
        /\ UNCHANGED svars

CallQpKv ==
    \E value \in Values :
        /\ call' = "qp_kv"
        /\ arg' = value
        /\ ret' = qp_kv(self, value)
        /\ UNCHANGED <<self, built>>
        /\ UNCHANGED svars

PNext == CallValidate \/ CallQpKv

(***************************************************************************)
(* Properties of the parameters (checked under SpecParam).                 *)
(***************************************************************************)

\* C1: for every parameter kind and every state of the parameter (any
\* default, any option set, any sort-code table, empty ones included),
\* validate(None) returns true and does not raise.
C1_ValidateNone ==
    (call = "validate" /\ arg = None) => ret = Bool(TRUE)

C1_Witness ==
    /\ call = "validate" /\ arg = None /\ ret = Bool(TRUE)
    /\ self.kind = "SortParam" /\ DOMAIN self.by = {} /\ self.default = None

\* The option labels of the <select> a Filter was constructed from.
SelectLabels(select) == {select.opts[i][1] : i \in 1..Len(select.opts)}

\* C2: for every Filter and every value other than None, validate(value) is
\* true if and only if value is a set whose every element is an option label
\* of the filter (the empty set is valid; a list or tuple of labels is not).
C2_FilterValidate ==
    (call = "validate" /\ self.kind = "Filter" /\ arg # None) =>
        /\ ret.st = "ok"
        /\ ret.res <=> (arg.t = "set" /\ \A e \in arg.elems : e \in SelectLabels(built))

C2_Witness ==
    /\ call = "validate" /\ self.kind = "Filter"
    /\ arg = PyList(<<"Active">>) /\ "Active" \in SelectLabels(built)
    /\ ret = Bool(FALSE)

\* C3: for every parameter kind, qp_kv(None) encodes the parameter's default,
\* and returns (None, None) without raising when the default is None too.
C3_NoneEncodesDefault ==
    (call = "qp_kv" /\ arg = None) =>
        IF self.default = None THEN ret = NoKV ELSE ret = qp_kv(self, self.default)

\* The code assigned to a column by the sort-button row the SortParam was
\* constructed from (column titles are distinct).
ScrapedCode(col) ==
    LET i == CHOOSE i \in 1..Len(Heads) : Heads[i] = col IN built.cells[i].code

\* C4: for every column title col of a SortParam's table, qp_kv((col, True))
\* is ('ColumnSort', code) with code > 0 the code scraped for col,
\* qp_kv((col, False)) is ('ColumnSort', -code), and this is so on every call
\* (the table is not changed by qp_kv).
C4_SortEncoding ==
    (/\ call = "qp_kv" /\ self.kind = "SortParam"
     /\ arg.t = "tuple" /\ Len(arg.parts) = 2
     /\ arg.parts[1].t = "str" /\ arg.parts[1].s \in DOMAIN self.by
     /\ arg.parts[2].t = "bool") =>
        LET code == ScrapedCode(arg.parts[1].s) IN
        /\ code > 0
        /\ self.by[arg.parts[1].s] = code
        /\ ret = KV(PyStr("ColumnSort"), PyInt(IF arg.parts[2].b THEN code ELSE -code))

C4_Witness ==
    /\ call = "qp_kv" /\ self.kind = "SortParam"
    /\ arg = PyTuple(<<PyStr("Part Status"), PyBool(FALSE)>>)
    /\ ret = KV(PyStr("ColumnSort"), PyInt(-2))

\* C5: ROHSParam: qp_kv(True) = ('rohs', '1'); qp_kv(False) = ('nonrohs', '1'),
\* whatever the default; qp_kv(None) with default None yields no key; one
\* call never yields anything but one of these.
C5_ROHSEncoding ==
    (call = "qp_kv" /\ self.kind = "ROHSParam") =>
        /\ arg = PyBool(TRUE) => ret = KV(PyStr("rohs"), PyStr("1"))
        /\ arg = PyBool(FALSE) => ret = KV(PyStr("nonrohs"), PyStr("1"))
        /\ (arg = None /\ self.default = None) => ret = NoKV
        /\ ret \in {KV(PyStr("rohs"), PyStr("1")), KV(PyStr("nonrohs"), PyStr("1")), NoKV}

C5_Witness ==
    /\ call = "qp_kv" /\ self.kind = "ROHSParam"
    /\ arg = PyBool(FALSE) /\ self.default = PyBool(TRUE)
    /\ ret = KV(PyStr("nonrohs"), PyStr("1"))

(***************************************************************************)
(* Attribute decoding (attr.py).  A cell <td> is [cls, text, desktop]:     *)
(* cls is its first class token, split at the prefix 'tr-'; text is the    *)
(* cell's full text and desktop the text of its span.desktop (when there   *)
(* is one), both as sequences of tokens in which " " is white space.  A    *)
(* cell of a marker whose decoder looks into the markup carries that       *)
(* sub-structure too: anchor (a.lnkDatasheet), img, a and rohs (the direct *)
(* anchor and img.rohs-foilage), span (the first span and its own text),   *)
(* own (the cell's own first text node).                                   *)
(***************************************************************************)
IsSpace(tok) == tok = " "

\* str.strip()
RECURSIVE Strip(_)
Strip(toks) ==
    IF toks = << >> THEN toks
    ELSE IF IsSpace(Head(toks)) THEN Strip(Tail(toks))
    ELSE IF IsSpace(toks[Len(toks)]) THEN Strip(SubSeq(toks, 1, Len(toks) - 1))
    ELSE toks

\* str.split()
RECURSIVE Split(_)
Split(toks) ==
    IF toks = << >> THEN << >>
    ELSE IF IsSpace(Head(toks)) THEN Split(Tail(toks))
    ELSE <<Head(toks)>> \o Split(Tail(toks))

\* locale.atoi under the en_US locale, on the numerals of the model
atoi(tok) ==
    CASE tok = "1" -> [st |-> "ok", n |-> 1]
      [] tok = "10" -> [st |-> "ok", n |-> 10]
      [] tok = "25" -> [st |-> "ok", n |-> 25]
      [] tok = "1,000" -> [st |-> "ok", n |-> 1000]
      [] OTHER -> Raise("ValueError")

\* locale.atof under the en_US locale, on the numerals of the model; the
\* float is given in hundredths
atof(tok) ==
    CASE tok = "0.10" -> [st |-> "ok", x |-> 10]
      [] tok = "1,234.50" -> [st |-> "ok", x |-> 123450]
      [] OTHER -> Raise("ValueError")

\* the token begins with a digit (\d of CURR_RE)
StartsWithDigit(tok) == tok \in {"1", "10", "25", "1,000", "0.10", "1,234.50", "0.10/ea"}

\* str.split('-'): the pieces between the "-" tokens, from piece cur on
RECURSIVE SplitDash(_, _)
SplitDash(toks, cur) ==
    IF toks = << >> THEN <<cur>>
    ELSE IF Head(toks) = "-" THEN <<cur>> \o SplitDash(Tail(toks), << >>)
    ELSE SplitDash(Tail(toks), Append(cur, Head(toks)))

Attr(T, NAME, title) == [st |-> "ok", T |-> T, NAME |-> NAME, title |-> title]

\* BasicAttr.__init__ (MfgPartNoAttr, VendorAttr, DescriptionAttr, SeriesAttr)
BasicAttr(T, NAME, title, td) ==
    [st |-> "ok", T |-> T, NAME |-> NAME, title |-> title, value |-> Strip(td.text)]

DefaultAttr(name, title, td) ==
    [st |-> "ok", T |-> "DefaultAttr", NAME |-> "None", title |-> title,
     value |-> Strip(td.text), name |-> name]

CompareAttr(name, title, td) == Attr("CompareAttr", "compareParts", title)

\* AbstractDesktopAttr.__init__: the stripped text of span.desktop
AbstractDesktopAttr(td) ==
    IF ~td.desktop.has THEN Raise("AttributeError")
    ELSE [st |-> "ok", raw |-> Strip(td.desktop.text)]

\* DatasheetAttr.__init__: no a.lnkDatasheet gives link None; an anchor
\* without href makes attrs.get('href') None, and None.strip() fails
DatasheetAttr(name, title, td) ==
    IF ~td.anchor.has THEN Attr("DatasheetAttr", "datasheet", title) @@ [link |-> None]
    ELSE IF ~td.anchor.href.has THEN Raise("AttributeError")
    ELSE Attr("DatasheetAttr", "datasheet", title) @@ [link |-> PyStr(Strip(td.anchor.href.text))]

\* ImageAttr.__init__: td.find('img') is None without an <img>
ImageAttr(name, title, td) ==
    IF ~td.img.has THEN Raise("AttributeError")
    ELSE Attr("ImageAttr", "image", title) @@
            [link |-> IF td.img.nophoto THEN None ELSE td.img.zoomimg]

\* PartNoAttr.__init__: td.find('a', recursive=False) is None without a
\* direct anchor; attrs['href'] and attrs['alt'] are subscripts
PartNoAttr(name, title, td) ==
    IF ~td.a.has THEN Raise("AttributeError")
    ELSE IF ~td.a.href.has THEN Raise("KeyError")
    ELSE IF td.rohs.has /\ ~td.rohs.alt.has THEN Raise("KeyError")
    ELSE Attr("PartNoAttr", "dkPartNumber", title) @@
            [link |-> PyStr(td.a.href.text), number |-> Strip(td.a.text),
             rohs |-> IF td.rohs.has THEN PyStr(td.rohs.alt.text) ELSE None]

\* QtyAvailAttr.__init__: "value, avail = ..." needs exactly two pieces
QtyAvailAttr(name, title, td) ==
    LET d == AbstractDesktopAttr(td) IN
    IF d.st = "raise" THEN d
    ELSE LET parts == SplitDash(d.raw, << >>) IN
         IF Len(parts) # 2 THEN Raise("ValueError")
         ELSE LET value == Strip(parts[1])
                  v == IF Len(value) = 1 THEN atoi(value[1]) ELSE Raise("ValueError")
              IN  IF v.st = "raise" THEN v
                  ELSE Attr("QtyAvailAttr", "qtyAvailable", title) @@
                          [value |-> v.n, availability |-> Strip(parts[2])]

\* PriceAttr.__init__: td.find('span') and its own text node can be None,
\* and CURR_RE.match is None unless a number follows the currency
PriceAttr(name, title, td) ==
    IF ~td.span.has THEN Raise("AttributeError")
    ELSE IF ~td.span.own.has THEN Raise("AttributeError")
    ELSE LET text == Split(td.span.own.text) IN
         IF ~(Len(text) = 2 /\ ~StartsWithDigit(text[1]) /\ StartsWithDigit(text[2]))
         THEN Raise("AttributeError")
         ELSE LET v == atof(text[2]) IN
              IF v.st = "raise" THEN v
              ELSE Attr("PriceAttr", "unitPrice", title) @@ [curr |-> text[1], value |-> v.x]

\* PackagingAttr.__init__: the cell's own first text node can be None
PackagingAttr(name, title, td) ==
    IF ~td.own.has THEN Raise("AttributeError")
    ELSE Attr("PackagingAttr", "packaging", title) @@ [value |-> Strip(td.own.text)]

MinQtyAttr(name, title, td) ==
    LET d == AbstractDesktopAttr(td) IN
    IF d.st = "raise" THEN d
    ELSE LET parts == Split(d.raw) IN
         IF parts = << >> THEN Raise("IndexError")
         ELSE LET v == atoi(parts[1]) IN
              IF v.st = "raise" THEN v
              ELSE [st |-> "ok", T |-> "MinQtyAttr", NAME |-> "minQty", title |-> title,
                    value |-> v.n,
                    stock_title |-> IF Len(parts) > 1 THEN PyStr(parts[2]) ELSE None]

\* mutant: the prefix 'tr-' not required of the class token
class_name_NoPrefix(td) == td.cls.name

\* name: what follows 'tr-' in the cell's first class token, or None
class_name(td) == IF td.cls.tr THEN td.cls.name ELSE "None"

\* _attrs.get(name, DefaultAttr), and the call of the class found
update_attr(head, td) ==
    LET name == class_name(td) IN
    CASE name = "compareParts" -> CompareAttr(name, head, td)
      [] name = "datasheet" -> DatasheetAttr(name, head, td)
      [] name = "image" -> ImageAttr(name, head, td)
      [] name = "dkPartNumber" -> PartNoAttr(name, head, td)
      [] name = "qtyAvailable" -> QtyAvailAttr(name, head, td)
      [] name = "unitPrice" -> PriceAttr(name, head, td)
      [] name = "packaging" -> PackagingAttr(name, head, td)
      [] name = "mfgPartNumber" -> BasicAttr("MfgPartNoAttr", name, head, td)
      [] name = "vendor" -> BasicAttr("VendorAttr", name, head, td)
      [] name = "description" -> BasicAttr("DescriptionAttr", name, head, td)
      [] name = "series" -> BasicAttr("SeriesAttr", name, head, td)
      [] name = "minQty" -> MinQtyAttr(name, head, td)
      [] OTHER -> DefaultAttr(name, head, td)

(***************************************************************************)
(* Part (part.py)                                                          *)
(***************************************************************************)
RECURSIVE ByName(_, _)
ByName(attrs, d) ==
    IF attrs = << >> THEN d
    ELSE LET a == Head(attrs) IN
         IF a.NAME = "None" THEN ByName(Tail(attrs), d)
         ELSE ByName(Tail(attrs), [k \in DOMAIN d \ {a.NAME} |-> d[k]] @@ (a.NAME :> a))

\* mutant: "if attr.NAME" left out, every attribute indexed
Part_NoFilter(attrs) ==
    [attrs |-> attrs,
     attrs_by_name |-> [k \in {attrs[i].NAME : i \in 1..Len(attrs)} |->
                            attrs[CHOOSE i \in 1..Len(attrs) :
                                    /\ attrs[i].NAME = k
                                    /\ \A j \in (i + 1)..Len(attrs) : attrs[j].NAME # k]]]

Part(attrs) == [attrs |-> attrs, attrs_by_name |-> ByName(attrs, EmptyDict)]

\* mutant: dict.get for the subscript, None for an absent kind
Part_get_OrNone(part, NAME, field) ==
    IF NAME \notin DOMAIN part.attrs_by_name THEN [st |-> "ok", res |-> None]
    ELSE [st |-> "ok", res |-> part.attrs_by_name[NAME][field]]

\* self.attrs_by_name[NAME].<field>: the subscript raises KeyError
Part_get(part, NAME, field) ==
    IF NAME \notin DOMAIN part.attrs_by_name THEN Raise("KeyError")
    ELSE [st |-> "ok", res |-> part.attrs_by_name[NAME][field]]

Part_vendor(part) == Part_get(part, "vendor", "value")
Part_dk_part_no(part) == Part_get(part, "dkPartNumber", "number")
Part_mfg_part_no(part) == Part_get(part, "mfgPartNumber", "value")
Part_description(part) == Part_get(part, "description", "value")

(***************************************************************************)
(* Category._get_parts, one row: the cells paired with self.heads are      *)
(* decoded in order from cell i on; a MinQtyAttr above qty breaks out of   *)
(* the row, a decoding error leaves the generator, and the else branch     *)
(* of the for loop yields the Part.                                        *)
(***************************************************************************)
\* mutant: ">=" for ">"
Disqualifies_Ge(fq, q, attr) ==
    /\ fq
    /\ q # None
    /\ attr.T = "MinQtyAttr"
    /\ attr.value >= IntOf(q)

\* mutant: filter_qty not consulted
Disqualifies_NoFlag(fq, q, attr) ==
    /\ q # None
    /\ attr.T = "MinQtyAttr"
    /\ attr.value > IntOf(q)

\* the condition of the break
Disqualifies(fq, q, attr) ==
    /\ fq
    /\ q # None
    /\ attr.T = "MinQtyAttr"
    /\ attr.value > IntOf(q)

\* mutant: a cell that fails to decode is passed over, the Part made of the
\* rest
RECURSIVE RowFrom_Partial(_, _, _, _, _, _)
RowFrom_Partial(heads, cells, fq, q, i, attrs) ==
    IF i > Min(Len(heads), Len(cells))
    THEN [kind |-> "yield", calls |-> i - 1, part |-> Part(attrs)]
    ELSE LET attr == update_attr(heads[i], cells[i]) IN
         IF attr.st = "raise" THEN RowFrom_Partial(heads, cells, fq, q, i + 1, attrs)
         ELSE IF Disqualifies(fq, q, attr) THEN [kind |-> "skip", calls |-> i]
         ELSE RowFrom_Partial(heads, cells, fq, q, i + 1, Append(attrs, attr))

\* mutant: all cells of the row decoded before the quantity is looked at
RECURSIVE RowFrom_DecodeAll(_, _, _, _, _, _)
RowFrom_DecodeAll(heads, cells, fq, q, i, attrs) ==
    LET n == Min(Len(heads), Len(cells))
        failing == {j \in i..n : update_attr(heads[j], cells[j]).st = "raise"}
    IN  IF failing # {}
        THEN [kind |-> "raise", calls |-> n,
              exc |-> update_attr(heads[CHOOSE j \in failing : \A k \in failing : j <= k],
                                  cells[CHOOSE j \in failing : \A k \in failing : j <= k]).exc]
        ELSE IF i > n THEN [kind |-> "yield", calls |-> n, part |-> Part(attrs)]
        ELSE LET attr == update_attr(heads[i], cells[i]) IN
             IF Disqualifies(fq, q, attr) THEN [kind |-> "skip", calls |-> n]
             ELSE RowFrom_DecodeAll(heads, cells, fq, q, i + 1, Append(attrs, attr))

\* calls counts the cells update_attr was called on
RECURSIVE RowFrom(_, _, _, _, _, _)
RowFrom(heads, cells, fq, q, i, attrs) ==
    IF i > Min(Len(heads), Len(cells))
    THEN [kind |-> "yield", calls |-> i - 1, part |-> Part(attrs)]
    ELSE LET attr == update_attr(heads[i], cells[i]) IN
         IF attr.st = "raise" THEN [kind |-> "raise", calls |-> i, exc |-> attr.exc]
         ELSE IF Disqualifies(fq, q, attr) THEN [kind |-> "skip", calls |-> i]
         ELSE RowFrom(heads, cells, fq, q, i + 1, Append(attrs, attr))

get_parts_row(heads, cells, fq, q) == RowFrom(heads, cells, fq, q, 1, << >>)

(***************************************************************************)
(* The parameters of a category after discovery.  SHARED_PARAMS, with      *)
(* the titles of the English site, then the category's SortParam and its   *)
(* part-status Filter, in the order init_params chains them.               *)
(***************************************************************************)
QuantityDefault == 1
PageSizeDefault == 25

quantity_param == Param_init("UIntParam", "Quantity", "quantity", PyInt(QuantityDefault))

SHARED_PARAMS ==
    <<Param_init("BoolParam", "In Stock", "stock", PyBool(TRUE)),
      Param_init("BoolParam", "Normally Stocking", "nstock", None),
      Param_init("BoolParam", "New Products", "newproducts", None),
      Param_init("ROHSParam", "RoHS Compliant", "rohs", None),
      Param_init("BoolParam", "Media Available - Datasheet", "datasheet", None),
      Param_init("BoolParam", "Media Available - Photo", "photo", None),
      Param_init("BoolParam", "Media Available - EDA / CAD Models", "cad", None),
      quantity_param,
      Param_init("UIntParam", "Results per Page", "pageSize", PyInt(PageSizeDefault)),
      Param_init("MultiParam", "Keywords", "k", None)>>

SortRow ==
    <<[button |-> TRUE, up |-> TRUE, code |-> 2], [button |-> FALSE, up |-> TRUE, code |-> 0]>>

StatusSelect == [name |-> "pv1989", opts |-> <<<<"Active", "0">>, <<"Obsolete", "1">>>>]

\* mutant: the filters left out, the SortParam alone returned
get_addl_params_SortOnly ==
    <<SortParam_init(Heads, "Ascending/Descending", SortRow,
                     PyTuple(<<PyStr("Unit Price"), PyBool(TRUE)>>)).obj>>

\* _get_part_status_head: the head paired with the first cell of the first
\* result row that holds span#part-status; first_row tells of each cell
\* whether it does.  Without such a cell the method returns None.
RECURSIVE part_status_head(_, _, _)
part_status_head(heads, first_row, i) ==
    IF i > Min(Len(heads), Len(first_row)) THEN [found |-> FALSE]
    ELSE IF first_row[i] THEN [found |-> TRUE, head |-> heads[i]]
    ELSE part_status_head(heads, first_row, i + 1)

\* next(k for k, v in filt.options.items() if v == '0'): the first label, in
\* the order of the dict, whose code is '0'; StopIteration without one
first_label_coded(select, options, code) ==
    LET at == {i \in 1..Len(select.opts) : options[select.opts[i][1]] = code} IN
    IF at = {} THEN Raise("StopIteration")
    ELSE [st |-> "ok", label |-> select.opts[CHOOSE i \in at : \A j \in at : i <= j][1]]

\* mutant: the default given to every filter, the title not compared
addl_filter_AllDefault(title, select, status_head) ==
    LET filt == Filter_init(title, select, None)
        k == first_label_coded(select, filt.options, "0")
    IN  IF k.st = "raise" THEN k
        ELSE [st |-> "ok", filt |-> [filt EXCEPT !.default = PySet({k.label})]]

\* the body of the loop over zip(headers, cells) of _get_addl_params
addl_filter(title, select, status_head) ==
    LET filt == Filter_init(title, select, None) IN
    IF status_head.found /\ title = status_head.head
    THEN LET k == first_label_coded(select, filt.options, "0") IN
         IF k.st = "raise" THEN k
         ELSE [st |-> "ok", filt |-> [filt EXCEPT !.default = PySet({k.label})]]
    ELSE [st |-> "ok", filt |-> filt]

RECURSIVE addl_filters(_, _, _, _)
addl_filters(fs, status_head, i, filters) ==
    IF i > Len(fs) THEN [st |-> "ok", params |-> filters]
    ELSE LET r == addl_filter(fs[i].title, fs[i].select, status_head) IN
         IF r.st = "raise" THEN r
         ELSE addl_filters(fs, status_head, i + 1, Append(filters, r.filt))

\* Category._get_addl_params on the category's page: its column heads, the
\* sort-button row, the heads of price and sort order, the first result
\* row, and the filter headlines with their selects
Category_get_addl_params(pg) ==
    LET status_head == part_status_head(pg.heads, pg.first_row, 1)
        sort == SortParam_init(pg.heads, pg.sort_head, pg.sort_cells,
                               PyTuple(<<PyStr(pg.price_head), PyBool(TRUE)>>))
    IN  IF sort.st = "raise" THEN sort
        ELSE addl_filters(pg.filters, status_head, 1, <<sort.obj>>)

\* the page of the category that is searched
CategoryPage ==
    [heads |-> Heads, sort_cells |-> SortRow, price_head |-> "Unit Price",
     sort_head |-> "Ascending/Descending", first_row |-> <<FALSE, TRUE>>,
     filters |-> <<[title |-> "Part Status", select |-> StatusSelect]>>]

get_addl_params == Category_get_addl_params(CategoryPage).params

NotLoaded == << >>

\* mutant: the parameters never discovered by a search
needs_discovery_Never(P) == FALSE

\* mutant: the parameters discovered anew by every search
needs_discovery_Always(P) == TRUE

\* the unit stands before its first search: its parameters are not populated
needs_discovery(P) == P = NotLoaded

\* Searchable.init_params: the mapping by title, as the sequence of its
\* values in insertion order (the titles are distinct)
init_params == SHARED_PARAMS \o get_addl_params

Titles(P) == {P[i].title : i \in 1..Len(P)}

\* dict.get(key), None when the key is absent
Get(d, key) == IF key \in DOMAIN d THEN d[key] ELSE None

(***************************************************************************)
(* Searchable.search(param_values, extra): unknown keys and invalid        *)
(* values raise ValueError before anything is sent; otherwise every        *)
(* parameter's (key, value) goes into the query, from parameter i on,      *)
(* and extra is merged on top.  The result is the query handed to          *)
(* session.get_doc.                                                        *)
(***************************************************************************)
RECURSIVE QpsFrom(_, _, _, _)
QpsFrom(P, pv, i, qps) ==
    IF i > Len(P) THEN [st |-> "ok", qps |-> qps]
    ELSE LET param == P[i]
             value == Get(pv, param.title)
             valid == validate(param, value)
         IN  IF valid.st = "raise" THEN valid
             ELSE IF ~valid.res
                  THEN [st |-> "raise", exc |-> "ValueError", value |-> value,
                        type |-> param.kind, title |-> param.title]
             ELSE LET kv == qp_kv(param, value) IN
                  IF kv.st = "raise" THEN kv
                  ELSE IF kv.key = None THEN QpsFrom(P, pv, i + 1, qps)
                  ELSE QpsFrom(P, pv, i + 1,
                               [k \in DOMAIN qps \ {kv.key.s} |-> qps[k]] @@ (kv.key.s :> kv.val))

Searchable_search(P, pv, extra) ==
    IF P = NotLoaded THEN Raise("AttributeError")
    ELSE IF DOMAIN pv \ Titles(P) # {}
    THEN [st |-> "raise", exc |-> "ValueError", bad_keys |-> DOMAIN pv \ Titles(P)]
    ELSE LET r == QpsFrom(P, pv, 1, EmptyDict) IN
         IF r.st = "raise" THEN r
         ELSE [st |-> "ok",
               qps |-> [k \in DOMAIN r.qps \ DOMAIN extra |-> r.qps[k]] @@ extra]

(***************************************************************************)
(* What the site can answer and what a caller can ask.                     *)
(***************************************************************************)
Vendor == [cls |-> [tr |-> TRUE, name |-> "vendor"], text |-> <<" ", "Acme", " ">>]
MinQty(desktop) ==
    [cls |-> [tr |-> TRUE, name |-> "minQty"], text |-> <<"10", " ", "Minimum">>,
     desktop |-> desktop]
Cells ==
    {Vendor,
     MinQty([has |-> TRUE, text |-> <<"10">>]),
     MinQty([has |-> TRUE, text |-> <<" ", "25", " ", "Non-Stock", " ">>]),
     MinQty([has |-> FALSE, text |-> << >>])}

\* cells of the other markers, whole and with their sub-structure missing,
\* and cells whose first class token is no marker
Td(name, text) == [cls |-> [tr |-> TRUE, name |-> name], text |-> text]
Missing == [has |-> FALSE]
Found(text) == [has |-> TRUE, text |-> text]
Compare == Td("compareParts", <<" ">>)
Datasheet(anchor) == Td("datasheet", <<" ">>) @@ [anchor |-> anchor]
Image(img) == Td("image", <<" ">>) @@ [img |-> img]
PartNo(a, rohs) == Td("dkPartNumber", <<" ", "296-1-ND", " ">>) @@ [a |-> a, rohs |-> rohs]
QtyAvail(desktop) == Td("qtyAvailable", <<"1,000", " ", "-", " ", "Immediate">>) @@ [desktop |-> desktop]
Price(span) == Td("unitPrice", <<"$", "0.10">>) @@ [span |-> span]
Packaging(own) == Td("packaging", <<" ", "Tape", " ">>) @@ [own |-> own]
Anchor == Found(<<" ", "296-1-ND", " ">>) @@ [href |-> Found("/p/296-1-ND")]

NoAnchor == Datasheet(Missing)
NoImg == Image(Missing)
NoPartAnchor == PartNo(Missing, Missing)
NoCurrency == Price([has |-> TRUE, own |-> Found(<<"Call">>)])

MarkerCells ==
    {Compare,
     Td("mfgPartNumber", <<" ", "SN74", " ">>),
     Td("description", <<" ", "IC", " ", "GATE", " ">>),
     Td("series", <<"74HC">>),
     NoAnchor,
     Datasheet([has |-> TRUE, href |-> Found(<<" ", "//d.pdf", " ">>)]),
     Datasheet([has |-> TRUE, href |-> Missing]),
     NoImg,
     Image([has |-> TRUE, nophoto |-> TRUE, zoomimg |-> None]),
     Image([has |-> TRUE, nophoto |-> FALSE, zoomimg |-> PyStr("//z.jpg")]),
     NoPartAnchor,
     PartNo(Anchor, Missing),
     PartNo(Anchor, [has |-> TRUE, alt |-> Found("RoHS Compliant")]),
     QtyAvail(Missing),
     QtyAvail(Found(<<" ", "1,000", " ", "-", " ", "Immediate", " ">>)),
     QtyAvail(Found(<<"10">>)),
     Price(Missing),
     Price([has |-> TRUE, own |-> Missing]),
     Price([has |-> TRUE, own |-> Found(<<" ", "$", "0.10", " ">>)]),
     NoCurrency,
     Packaging(Missing),
     Packaging(Found(<<" ", "Tape", " ">>))}

OtherCells ==
    {[cls |-> [tr |-> FALSE, name |-> "hidden"], text |-> <<" ", "note", " ">>],
     [cls |-> [tr |-> FALSE, name |-> "vendor"], text |-> <<" ", "Acme", " ">>],
     Td("leadTime", <<" ", "6", " ", "weeks", " ">>)}

AllCells == Cells \cup MarkerCells \cup OtherCells

\* a row has at most as many cells as the table has column heads
PartRows == UNION {[1..n -> AllCells] : n \in 0..Len(Heads)}

\* the rows a search of the model meets: all rows of Cells, and rows with a
\* cell whose sub-structure is missing
Rows ==
    UNION {[1..n -> Cells] : n \in 0..Len(Heads)}
        \cup {<<NoPartAnchor>>, <<Vendor, NoImg>>, <<NoCurrency>>, <<NoAnchor, Vendor>>}

\* the text of span.current-page: missing, not of the form "x/y", or "k/N"
PageTexts ==
    {[kind |-> "absent"], [kind |-> "garbled"]}
      \cup {[kind |-> "of", this_page |-> k, size |-> n] : k \in 1..MaxPages, n \in 1..MaxPages}

\* a document: whether it has table#productTable, how many rows its tbody
\* has, and its span.current-page
Docs ==
    {[table |-> TRUE, nrows |-> n, page_text |-> t] : n \in 0..MaxRows, t \in PageTexts}
      \cup {[table |-> FALSE, nrows |-> 0, page_text |-> t] : t \in PageTexts}

NoDoc == [table |-> FALSE, nrows |-> 0, page_text |-> [kind |-> "absent"]]

ParamValues ==
    {EmptyDict,
     "Quantity" :> PyInt(10),
     "Quantity" :> PyInt(30),
     "Quantity" :> PyInt(-1),
     "Quantitty" :> PyInt(10),
     "In Stock" :> PyStr("yes"),
     "Part Status" :> PySet({"Active", "Bogus"}),
     ("Quantity" :> PyInt(-1)) @@ ("Colour" :> PyStr("red"))}

(***************************************************************************)
(* Category.search, a generator.  The rows of a page's tbody are read      *)
(* once and in order: each is chosen when _get_parts takes it up.          *)
(***************************************************************************)
NoRow == << >>

\* mutant: the test left out, the table taken to be there
has_table_Always(d) == TRUE

\* len(doc.select('table#productTable')) > 0
has_table(d) == d.table

\* mutant: the assertion left out
page_step_NoAssert(t, n) ==
    CASE t.kind = "absent" -> [kind |-> "raise", exc |-> "IndexError"]
      [] t.kind = "garbled" -> [kind |-> "raise", exc |-> "AttributeError"]
      [] t.kind = "of" /\ n >= t.size -> [kind |-> "done"]
      [] OTHER -> [kind |-> "next"]

\* mutant: "page > size" for "page >= size"
page_step_Gt(t, n) ==
    CASE t.kind = "absent" -> [kind |-> "raise", exc |-> "IndexError"]
      [] t.kind = "garbled" -> [kind |-> "raise", exc |-> "AttributeError"]
      [] t.kind = "of" /\ t.this_page # n -> [kind |-> "raise", exc |-> "AssertionError"]
      [] t.kind = "of" /\ n > t.size -> [kind |-> "done"]
      [] OTHER -> [kind |-> "next"]

\* The end of the loop body for page n, on the text t of span.current-page:
\* select(...)[0] and the match of rex_page can fail, this_page is asserted
\* to be the page asked for, and the loop breaks once page >= size.
page_step(t, n) ==
    CASE t.kind = "absent" -> [kind |-> "raise", exc |-> "IndexError"]
      [] t.kind = "garbled" -> [kind |-> "raise", exc |-> "AttributeError"]
      [] t.kind = "of" /\ t.this_page # n -> [kind |-> "raise", exc |-> "AssertionError"]
      [] t.kind = "of" /\ n >= t.size -> [kind |-> "done"]
      [] OTHER -> [kind |-> "next"]

SInit ==
    /\ params = NotLoaded
    /\ pc = "idle"
    /\ running = FALSE
    /\ param_values = EmptyDict
    /\ filter_qty = TRUE
    /\ qty = None
    /\ page = 0
    /\ doc = NoDoc
    /\ row = 0
    /\ tr = NoRow
    /\ outcome = "none"
    /\ out = None
    /\ exc = "none"
    /\ fetches = << >>
    /\ text_read = FALSE
    /\ resultN = 0
    /\ discoveries = 0

PIdle == self = None /\ built = None /\ call = "none" /\ arg = None /\ ret = None

\* category.search(param_values, filter_qty): the generator object is made,
\* none of its body runs (one generator at a time: the call comes when no
\* earlier generator is left unfinished)
Search ==
    /\ pc \in {"idle", "done", "raised"}
    /\ \E pv \in ParamValues, fq \in BOOLEAN :
        /\ param_values' = pv
        /\ filter_qty' = fq
    /\ pc' = "created"
    /\ qty' = None /\ page' = 0 /\ doc' = NoDoc /\ row' = 0 /\ tr' = NoRow
    /\ outcome' = "none" /\ out' = None /\ exc' = "none" /\ fetches' = << >>
    /\ text_read' = FALSE /\ resultN' = 0
    /\ UNCHANGED <<params, running, discoveries>>
    /\ UNCHANGED pvars

\* next(generator): the body starts (qty is resolved, page = 1) or resumes
\* after the yield it is suspended at
Pull ==
    /\ ~running
    /\ pc \in {"created", "rows"}
    /\ running' = TRUE
    /\ out' = None
    /\ IF pc = "created"
       THEN /\ qty' = qp_kv(quantity_param, Get(param_values, quantity_param.title)).val
            /\ page' = 1
            /\ pc' = "fetch"
       ELSE UNCHANGED <<qty, page, pc>>
    /\ UNCHANGED <<params, param_values, filter_qty, doc, row, tr, outcome, exc, fetches,
                   text_read, resultN, discoveries>>
    /\ UNCHANGED pvars

\* super().search(param_values, {'page': page}), which first discovers the
\* parameters of a unit that has none yet, and the test for
\* table#productTable
Fetch ==
    /\ running
    /\ pc = "fetch"
    /\ IF needs_discovery(params)
       THEN params' = init_params /\ discoveries' = discoveries + 1
       ELSE UNCHANGED <<params, discoveries>>
    /\ LET r == Searchable_search(params', param_values, "page" :> PyInt(page)) IN
       IF r.st = "raise"
       THEN /\ pc' = "raised"
            /\ exc' = r.exc
            /\ running' = FALSE
            /\ UNCHANGED <<doc, fetches, text_read, resultN>>
       ELSE \E d \in Docs :
            /\ doc' = d
            /\ fetches' = Append(fetches, r.qps)
            /\ text_read' = FALSE
            /\ IF has_table(d)
               THEN pc' = "rows" /\ UNCHANGED <<running, resultN>>
               ELSE pc' = "done" /\ running' = FALSE /\ resultN' = -1
            /\ UNCHANGED exc
    /\ row' = 0 /\ tr' = NoRow /\ outcome' = "none"
    /\ UNCHANGED <<param_values, filter_qty, qty, page, out>>
    /\ UNCHANGED pvars

\* mutant: the parts of a page collected eagerly, the generator not
\* suspended at a yield
Row_Eager ==
    /\ running
    /\ pc = "rows"
    /\ row < doc.nrows
    /\ \E cells \in Rows :
        LET o == get_parts_row(Heads, cells, filter_qty, qty) IN
        /\ tr' = cells
        /\ row' = row + 1
        /\ outcome' = o.kind
        /\ CASE o.kind = "yield" ->
                    /\ out' = [page |-> page, row |-> row + 1, part |-> o.part]
                    /\ UNCHANGED <<running, pc, exc>>
             [] o.kind = "skip" -> UNCHANGED <<out, running, pc, exc>>
             [] o.kind = "raise" ->
                    /\ pc' = "raised"
                    /\ exc' = o.exc
                    /\ running' = FALSE
                    /\ UNCHANGED out
    /\ UNCHANGED <<params, param_values, filter_qty, qty, page, doc, fetches, text_read,
                   resultN, discoveries>>
    /\ UNCHANGED pvars

\* _get_parts: the next <tr> of the table
Row ==
    /\ running
    /\ pc = "rows"
    /\ row < doc.nrows
    /\ \E cells \in Rows :
        LET o == get_parts_row(Heads, cells, filter_qty, qty) IN
        /\ tr' = cells
        /\ row' = row + 1
        /\ outcome' = o.kind
        /\ CASE o.kind = "yield" ->
                    /\ out' = [page |-> page, row |-> row + 1, part |-> o.part]
                    /\ running' = FALSE
                    /\ UNCHANGED <<pc, exc>>
             [] o.kind = "skip" -> UNCHANGED <<out, running, pc, exc>>
             [] o.kind = "raise" ->
                    /\ pc' = "raised"
                    /\ exc' = o.exc
                    /\ running' = FALSE
                    /\ UNCHANGED out
    /\ UNCHANGED <<params, param_values, filter_qty, qty, page, doc, fetches, text_read,
                   resultN, discoveries>>
    /\ UNCHANGED pvars

\* the rows are exhausted: span.current-page is parsed, this_page is
\* asserted to be page, and the loop ends at the last page
PageText ==
    /\ running
    /\ pc = "rows"
    /\ row = doc.nrows
    /\ text_read' = TRUE
    /\ LET t == doc.page_text
           step == page_step(t, page)
       IN  /\ resultN' = IF t.kind = "of" /\ t.this_page = page /\ resultN \in {0, t.size}
                         THEN t.size ELSE -1
           /\ CASE step.kind = "raise" ->
                    /\ pc' = "raised" /\ exc' = step.exc /\ running' = FALSE
                    /\ UNCHANGED page
                [] step.kind = "done" ->
                    /\ pc' = "done" /\ running' = FALSE
                    /\ UNCHANGED <<page, exc>>
                [] step.kind = "next" ->
                    /\ pc' = "fetch" /\ page' = page + 1
                    /\ UNCHANGED <<running, exc>>
    /\ UNCHANGED <<params, param_values, filter_qty, qty, doc, row, tr, outcome, out, fetches,
                   discoveries>>
    /\ UNCHANGED pvars

Init == PIdle /\ SInit

Next == Search \/ Pull \/ Fetch \/ Row \/ PageText

Spec == Init /\ [][Next]_vars

(***************************************************************************)
(* The rows specification: a row of cells, the attributes update() makes   *)
(* of them, the Part made of the attributes, and the Part's properties.    *)
(* built is the row, self the Part.                                        *)
(***************************************************************************)
Accessors == {"vendor", "dk_part_no", "mfg_part_no", "description"}

accessor(a, part) ==
    CASE a = "vendor" -> Part_vendor(part)
      [] a = "dk_part_no" -> Part_dk_part_no(part)
      [] a = "mfg_part_no" -> Part_mfg_part_no(part)
      [] a = "description" -> Part_description(part)

RowInit ==
    /\ built \in PartRows
    /\ self = None /\ call = "none" /\ arg = None /\ ret = None
    /\ SInit

\* update(head, td) on a cell of the row
CallUpdate ==
    /\ \E i \in 1..Min(Len(Heads), Len(built)) :
        /\ arg' = [head |-> Heads[i], td |-> built[i]]
        /\ ret' = update_attr(Heads[i], built[i])
    /\ call' = "update"
    /\ UNCHANGED <<self, built>>
    /\ UNCHANGED svars

\* Part(attrs) on the attributes of the row, when all its cells decode
NewPart ==
    /\ self = None
    /\ LET o == get_parts_row(Heads, built, FALSE, None) IN
        /\ o.kind = "yield"
        /\ self' = o.part
        /\ arg' = o.part.attrs
    /\ call' = "Part"
    /\ ret' = None
    /\ UNCHANGED built
    /\ UNCHANGED svars

\* part.vendor, part.dk_part_no, part.mfg_part_no, part.description
CallAccessor ==
    /\ self # None
    /\ \E a \in Accessors :
        /\ call' = a
        /\ ret' = accessor(a, self)
    /\ arg' = None
    /\ UNCHANGED <<self, built>>
    /\ UNCHANGED svars

\* the quantities _get_parts is called with
Quantities == {None, PyInt(1), PyInt(10), PyInt(30)}

\* _get_parts(table, filter_qty, qty) on the row
CallGetParts ==
    /\ \E fq \in BOOLEAN, q \in Quantities :
        /\ arg' = [filter_qty |-> fq, qty |-> q]
        /\ ret' = get_parts_row(Heads, built, fq, q)
    /\ call' = "_get_parts"
    /\ UNCHANGED <<self, built>>
    /\ UNCHANGED svars

RowNext == CallUpdate \/ NewPart \/ CallAccessor \/ CallGetParts

SpecRow == RowInit /\ [][RowNext]_vars

\* the parameter specification: a Param object, and no search running
ParamInit == PInit /\ SInit

SpecParam == ParamInit /\ [][PNext]_vars

(***************************************************************************)
(* Properties of the category search (checked under Spec).                 *)
(***************************************************************************)

\* The minimum quantity a cell of the model shows, read off its markup.
ShownMinQty(td) ==
    CASE td.desktop.text = <<"10">> -> 10
      [] td.desktop.text = <<" ", "25", " ", "Non-Stock", " ">> -> 25

\* a cell paired with a column head is a minimum-quantity cell showing more
\* than q
HasMinQtyAbove(cells, q) ==
    \E i \in 1..Min(Len(Heads), Len(cells)) :
        /\ cells[i].cls = [tr |-> TRUE, name |-> "minQty"]
        /\ cells[i].desktop.has
        /\ ShownMinQty(cells[i]) > q

\* C6: with quantity filtering enabled and requested quantity q, a row that
\* _get_parts has dealt with is left out if and only if it has a
\* MinimumQuantity attribute whose value is strictly greater than q;
\* otherwise it is yielded as a Part.
C6_RowFiltering ==
    (filter_qty /\ qty # None /\ outcome \in {"yield", "skip"}) =>
        /\ outcome = "skip" <=> HasMinQtyAbove(tr, IntOf(qty))
        /\ (outcome = "yield" /\ pc = "rows" /\ ~running) =>
                /\ out # None
                /\ out.row = row
                /\ Len(out.part.attrs) = Min(Len(Heads), Len(tr))

C6_Witness ==
    /\ filter_qty /\ qty = PyInt(30) /\ outcome = "yield" /\ out # None
    /\ HasMinQtyAbove(tr, 10) /\ ~HasMinQtyAbove(tr, 25)

\* C7 as stated: no row is discarded when filter_qty is false or the caller
\* supplied no value for the quantity parameter.
C7_Original ==
    (~filter_qty \/ quantity_param.title \notin DOMAIN param_values) => outcome # "skip"

\* C7, amended: a row is discarded only when filter_qty is true; with
\* filter_qty false every row that decodes is yielded.  The quantity rows are
\* compared with is the caller's value or, when the caller gives none, the
\* quantity parameter's default (1).
C7_FilterOnlyWhenEnabled ==
    /\ ~filter_qty => outcome # "skip"
    /\ pc \notin {"idle", "created"} =>
            qty = IF quantity_param.title \in DOMAIN param_values
                  THEN param_values[quantity_param.title]
                  ELSE PyInt(QuantityDefault)

C7_Witness ==
    /\ ~filter_qty /\ qty = PyInt(10) /\ outcome = "yield" /\ out # None
    /\ HasMinQtyAbove(tr, 10)

ReportsOtherPage ==
    /\ Len(fetches) > 0
    /\ doc.page_text.kind = "of"
    /\ doc.page_text.this_page # Len(fetches)

\* C9 as stated: whenever the document fetched reports another page than
\* the one asked for, the search neither goes on to another fetch nor ends
\* normally.
C9_Original ==
    ReportsOtherPage => pc \notin {"fetch", "done"}

\* C9, amended: when a document that has a results table reports another
\* page than the one asked for, the search neither goes on to another fetch
\* nor ends normally, and reading the page text raises AssertionError.
C9_MismatchRaises ==
    (ReportsOtherPage /\ doc.table) =>
        /\ pc \in {"rows", "raised"}
        /\ text_read => (pc = "raised" /\ exc = "AssertionError")

C9_Witness ==
    /\ ReportsOtherPage /\ doc.table /\ text_read
    /\ pc = "raised" /\ exc = "AssertionError" /\ Len(fetches) = 2

\* C10: when the document fetched for page N has no results table, the
\* search has ended normally: nothing of page N is yielded, nothing is
\* raised, the page text is not read, and no page after N is fetched.
C10_NoTableEnds ==
    (Len(fetches) > 0 /\ ~doc.table) =>
        /\ pc = "done" /\ ~running /\ exc = "none"
        /\ ~text_read
        /\ row = 0 /\ outcome = "none" /\ out = None
        /\ Len(fetches) = page

C10_Witness ==
    /\ Len(fetches) = 2 /\ ~doc.table /\ pc = "done"
    /\ doc.page_text.kind = "of" /\ doc.page_text.this_page # 2

\* C11: the Part sequence is lazy.  Nothing is fetched before the consumer
\* asks for the first item; a query is sent only while a next() of the
\* consumer is being served, and the query for a further page only when the
\* item yielded last has been taken, every row of the page before has been
\* dealt with and its page text read; while the generator is suspended at a
\* yield or not yet started, nothing of the search moves but by a next().
C11_Lazy ==
    [][/\ pc = "created" => fetches = << >>
       /\ fetches' # fetches =>
            \/ fetches' = << >> /\ pc' = "created"
            \/ /\ running /\ pc = "fetch" /\ out = None
               /\ Len(fetches') = Len(fetches) + 1
               /\ Len(fetches) = page - 1
               /\ Len(fetches) > 0 => (row = doc.nrows /\ text_read)
       /\ (~running /\ pc \in {"created", "rows"}) =>
            (running' /\ out' = None /\ fetches' = fetches)
      ]_vars

\* a Part of page 2 is in the consumer's hands while rows of the page remain
C11_Witness ==
    /\ ~running /\ pc = "rows" /\ out # None
    /\ out.page = 2 /\ Len(fetches) = 2 /\ row < doc.nrows

\* the titles a category of the model has after discovery
SchemaTitles ==
    {"In Stock", "Normally Stocking", "New Products", "RoHS Compliant",
     "Media Available - Datasheet", "Media Available - Photo",
     "Media Available - EDA / CAD Models", "Quantity", "Results per Page", "Keywords",
     "Ascending/Descending", "Part Status"}

\* the supplied values no parameter of the model accepts: a negative
\* quantity, a string for a checkbox, a status the select does not offer
Rejected(pv) ==
    {t \in DOMAIN pv :
        \/ t = "Quantity" /\ pv[t].t = "int" /\ pv[t].n < 0
        \/ t = "In Stock" /\ pv[t].t = "str"
        \/ t = "Part Status" /\ pv[t].t = "set" /\ ~(pv[t].elems \subseteq {"Active", "Obsolete"})}

\* the first query of the search has been attempted
Attempted == pc \in {"rows", "done", "raised"} \/ page > 1

ExpectedQuery(q, n) ==
    [k \in {"stock", "quantity", "pageSize", "ColumnSort", "pv1989", "page"} |->
        CASE k = "stock" -> PyInt(1)
          [] k = "quantity" -> PyInt(q)
          [] k = "pageSize" -> PyInt(25)
          [] k = "ColumnSort" -> PyInt(2)
          [] k = "pv1989" -> PySet({"0"})
          [] k = "page" -> PyInt(n)]

SharedTitle ==
    [n \in {"stock", "nstock", "newproducts", "rohs", "datasheet", "photo", "cad",
            "quantity", "pageSize", "k"} |->
        CASE n = "stock" -> "In Stock"
          [] n = "nstock" -> "Normally Stocking"
          [] n = "newproducts" -> "New Products"
          [] n = "rohs" -> "RoHS Compliant"
          [] n = "datasheet" -> "Media Available - Datasheet"
          [] n = "photo" -> "Media Available - Photo"
          [] n = "cad" -> "Media Available - EDA / CAD Models"
          [] n = "quantity" -> "Quantity"
          [] n = "pageSize" -> "Results per Page"
          [] n = "k" -> "Keywords"]

Broken == {NoPartAnchor, NoImg, MinQty([has |-> FALSE, text |-> << >>]), NoCurrency}

\* what C19 says of the row taken up last
RowDecoded ==
    LET cols == 1..Min(Len(Heads), Len(tr)) IN
    /\ outcome = "raise" =>
          /\ \E i \in cols : tr[i] \in Broken
          /\ pc = "raised" /\ exc = "AttributeError" /\ ~running
          /\ out = None
    /\ (cols # {} /\ tr[1] \in Broken) => outcome = "raise"
    /\ outcome = "yield" => \A i \in cols : tr[i] \notin Broken
    /\ (outcome = "yield" /\ out # None) =>
          /\ Len(out.part.attrs) = Len(tr)
          /\ \A i \in cols : tr[i] = NoAnchor =>
                (out.part.attrs[i].T = "DatasheetAttr" /\ out.part.attrs[i].link = None)

\* C19: a row with a cell that fails to decode, its part-number anchor,
\* image element, desktop span or currency pattern missing, gives no Part,
\* not a partial one: the error leaves Category.search, which is then
\* finished, so that no later row is taken up and no later page fetched; a
\* Datasheet cell without datasheet anchor is no error and decodes to a
\* link of None.
C19_DecodeFailure ==
    [][/\ RowDecoded /\ RowDecoded'
       /\ pc = "raised" => (pc' = "created" /\ fetches' = << >> /\ row' = 0 /\ out' = None)
      ]_vars

\* the first of two rows, on the first of three pages, has no part-number
\* anchor
C19_Witness ==
    /\ outcome = "raise" /\ tr = <<NoPartAnchor>> /\ pc = "raised"
    /\ row = 1 /\ doc.nrows = 2 /\ Len(fetches) = 1
    /\ doc.page_text = [kind |-> "of", this_page |-> 1, size |-> 3]

(***************************************************************************)
(* Properties of rows, attributes and Parts (checked under SpecRow).       *)
(***************************************************************************)

\* the markers that have a decoder of their own
Markers ==
    {"compareParts", "datasheet", "image", "dkPartNumber", "mfgPartNumber", "vendor",
     "description", "qtyAvailable", "unitPrice", "minQty", "packaging", "series"}

\* the kind a cell's attribute has, read off the cell's first class token:
\* the marker after 'tr-', or none
KindOf(td) == IF td.cls.tr /\ td.cls.name \in Markers THEN td.cls.name ELSE "None"

\* the columns of the row under test
Columns == 1..Min(Len(Heads), Len(built))

\* the sequence of a Part holds the attribute of every cell, in column order
SequenceInOrder ==
    /\ Len(self.attrs) = Min(Len(Heads), Len(built))
    /\ \A i \in Columns :
          /\ self.attrs[i] = update_attr(Heads[i], built[i])
          /\ self.attrs[i].title = Heads[i]

BackingKind ==
    [a \in Accessors |->
        CASE a = "vendor" -> "vendor"
          [] a = "dk_part_no" -> "dkPartNumber"
          [] a = "mfg_part_no" -> "mfgPartNumber"
          [] a = "description" -> "description"]

\* what a cell of a backing kind shows: the trimmed text of its direct
\* anchor for the part number, the cell's trimmed text for the others
Shown(td) ==
    IF td.cls.name = "dkPartNumber" THEN Strip(td.a.text) ELSE Strip(td.text)

\* C18: a property of a Part (vendor, dk_part_no, mfg_part_no,
\* description) read on a Part whose row has no attribute of the backing
\* kind raises KeyError, it does not return None; on a Part that has the
\* attribute it returns the attribute's value.
C18_Accessors ==
    (self # None /\ call \in Accessors) =>
        LET cols == {i \in Columns : KindOf(built[i]) = BackingKind[call]} IN
        /\ cols = {} => ret = Raise("KeyError")
        /\ cols # {} =>
              /\ ret.st = "ok"
              /\ ret.res = Shown(built[CHOOSE i \in cols : \A j \in cols : j <= i])

\* vendor read on a Part that has a part number and no vendor
C18_Witness ==
    /\ self # None /\ call = "vendor" /\ ret = Raise("KeyError")
    /\ DOMAIN self.attrs_by_name = {"dkPartNumber", "mfgPartNumber"}

\* the class each marker is decoded by
VariantOf ==
    [k \in Markers |->
        CASE k = "compareParts" -> "CompareAttr"
          [] k = "datasheet" -> "DatasheetAttr"
          [] k = "image" -> "ImageAttr"
          [] k = "dkPartNumber" -> "PartNoAttr"
          [] k = "mfgPartNumber" -> "MfgPartNoAttr"
          [] k = "vendor" -> "VendorAttr"
          [] k = "description" -> "DescriptionAttr"
          [] k = "qtyAvailable" -> "QtyAvailAttr"
          [] k = "unitPrice" -> "PriceAttr"
          [] k = "minQty" -> "MinQtyAttr"
          [] k = "packaging" -> "PackagingAttr"
          [] k = "series" -> "SeriesAttr"]

\* the trimmed full text of the cells of the model that bear no marker
TrimmedText(td) ==
    CASE td.cls.name = "hidden" -> <<"note">>
      [] td.cls.name = "vendor" -> <<"Acme">>
      [] td.cls.name = "leadTime" -> <<"6", " ", "weeks">>

\* C20: update() chooses the variant by the cell's first class token alone.
\* A token that is no marker, be it without the prefix 'tr-' or 'tr-' with
\* an unknown suffix, gives a Default attribute whose value is the cell's
\* trimmed full text (and this never fails); a marker gives its own
\* variant; either carries the title of the column it was found under.
C20_Dispatch ==
    call = "update" =>
        LET td == arg.td
            kind == KindOf(td)
        IN  /\ kind = "None" =>
                  /\ ret.st = "ok" /\ ret.T = "DefaultAttr" /\ ret.NAME = "None"
                  /\ ret.value = TrimmedText(td)
                  /\ ret.title = arg.head
            /\ (kind # "None" /\ ret.st = "ok") =>
                  /\ ret.T = VariantOf[kind] /\ ret.NAME = kind
                  /\ ret.title = arg.head
            /\ \A other \in AllCells :
                  (other.cls = td.cls /\ ret.st = "ok"
                        /\ update_attr(arg.head, other).st = "ok") =>
                      update_attr(arg.head, other).T = ret.T

\* a cell of class 'vendor', without the prefix, in the second column
C20_Witness ==
    /\ call = "update" /\ arg.head = "Part Status"
    /\ arg.td.cls = [tr |-> FALSE, name |-> "vendor"]
    /\ ret.T = "DefaultAttr" /\ ret.value = <<"Acme">>

\* the cells of the model that do not decode: the sub-structure their
\* decoder relies on is missing or not of the expected form
Malformed ==
    Broken \cup
    {Datasheet([has |-> TRUE, href |-> Missing]),
     QtyAvail(Missing), QtyAvail(Found(<<"10">>)),
     Price(Missing), Price([has |-> TRUE, own |-> Missing]),
     Packaging(Missing)}

\* cell td is a minimum-quantity cell showing more than the quantity q
\* asked for, with filtering on
DisqualifyingCell(td, fq, q) ==
    /\ fq /\ q # None
    /\ td.cls = [tr |-> TRUE, name |-> "minQty"]
    /\ td \notin Malformed
    /\ ShownMinQty(td) > q.n

\* C21: the cells of a row are decoded in column order, one after the other,
\* up to the first cell that either fails to decode or is a disqualifying
\* MinimumQuantity cell, and no further.  A disqualifying cell discards the
\* row whatever stands to its right (a malformed cell there raises
\* nothing); a malformed cell raises whatever stands to its right (a
\* disqualifying cell there discards nothing).  A row without either gives
\* a Part with the attribute of every paired cell; any other row gives no
\* Part.
C21_RowOrder ==
    call = "_get_parts" =>
        LET fq == arg.filter_qty
            q == arg.qty
            decisive == {i \in Columns :
                            built[i] \in Malformed \/ DisqualifyingCell(built[i], fq, q)}
            first == CHOOSE i \in decisive : \A j \in decisive : i <= j
        IN  /\ decisive = {} =>
                  /\ ret.kind = "yield"
                  /\ ret.calls = Min(Len(Heads), Len(built))
                  /\ Len(ret.part.attrs) = Min(Len(Heads), Len(built))
                  /\ \A i \in Columns : ret.part.attrs[i] = update_attr(Heads[i], built[i])
            /\ decisive # {} =>
                  /\ ret.calls = first
                  /\ ret.kind = IF built[first] \in Malformed THEN "raise" ELSE "skip"
                  /\ "part" \notin DOMAIN ret

\* a disqualifying cell with a malformed cell to its right: the row is
\* discarded after one cell
C21_Witness ==
    /\ call = "_get_parts" /\ arg = [filter_qty |-> TRUE, qty |-> PyInt(10)]
    /\ Len(built) = 2
    /\ DisqualifyingCell(built[1], TRUE, PyInt(10)) /\ built[2] = NoPartAnchor
    /\ ret = [kind |-> "skip", calls |-> 1]

----------------------------------------------------------------------------
\* Schema discovery of a category: _get_addl_params on the category's page,
\* then the query pair of each discovered parameter when the search supplies
\* no value for it.  built is the page, self the category once discovered.

PackagingSelect == [name |-> "pv7", opts |-> <<<<"Tape", "0">>, <<"Tube", "1">>>>]

\* of each cell of the first result row, whether it holds span#part-status;
\* the row may be absent, shorter or longer than the heads
FirstRows == UNION {[1..n -> BOOLEAN] : n \in 0..(Len(Heads) + 1)}

CategoryPages ==
    {[heads |-> Heads, sort_cells |-> SortRow, price_head |-> "Unit Price",
      sort_head |-> "Ascending/Descending", first_row |-> fr, filters |-> fs] :
        fr \in FirstRows,
        fs \in UNION {{<<[title |-> "Part Status", select |-> s],
                         [title |-> "Packaging", select |-> PackagingSelect]>>,
                       <<[title |-> "Packaging", select |-> PackagingSelect],
                         [title |-> "Part Status", select |-> s]>>} : s \in Selects}}

DiscoverInit ==
    /\ built \in CategoryPages
    /\ self = None /\ call = "none" /\ arg = None /\ ret = None
    /\ SInit

Discover ==
    /\ self = None /\ call = "none"
    /\ LET r == Category_get_addl_params(built) IN
        /\ ret' = r
        /\ self' = IF r.st = "ok" THEN [kind |-> "Category", params |-> r.params]
                   ELSE None
    /\ call' = "_get_addl_params"
    /\ arg' = None
    /\ UNCHANGED built
    /\ UNCHANGED svars

\* Searchable.search finds no value for the parameter's title
\* (param_values.get(param.title) is None) and asks it for its query pair
CallDefaultQp ==
    /\ self # None
    /\ \E i \in 1..Len(self.params) :
        /\ arg' = [param |-> self.params[i], value |-> None]
        /\ ret' = qp_kv(self.params[i], None)
    /\ call' = "qp_kv"
    /\ UNCHANGED <<self, built>>
    /\ UNCHANGED svars

DiscoverNext == Discover \/ CallDefaultQp

SpecDiscover == DiscoverInit /\ [][DiscoverNext]_vars

\* the heading of the part-status column as the page shows it: the head
\* above the leftmost first-row cell that holds span#part-status
StatusHeading(pg) ==
    {pg.heads[i] : i \in {k \in 1..Min(Len(pg.heads), Len(pg.first_row)) :
                              pg.first_row[k] /\ \A j \in 1..(k - 1) : ~pg.first_row[j]}}

\* the code a select's label stands for: that of its last option so labelled
LabelsCoded(select, code) ==
    {select.opts[i][1] : i \in {k \in 1..Len(select.opts) :
        /\ select.opts[k][2] = code
        /\ \A j \in (k + 1)..Len(select.opts) : select.opts[j][1] # select.opts[k][1]}}

\* C22: after schema discovery the Filter titled as the part-status column
\* heading has as its default a one-element set holding an option label
\* whose code is '0' and every other Filter has default None (discovery
\* ends in StopIteration exactly when that Filter has no option coded '0');
\* asked for its query pair with no value supplied, that Filter gives its
\* key with the codes {'0'} and every other Filter gives no pair.
C22_StatusDefault ==
    LET sh == StatusHeading(built)
        lacking == \E i \in 1..Len(built.filters) :
                       /\ built.filters[i].title \in sh
                       /\ LabelsCoded(built.filters[i].select, "0") = {}
    IN  /\ call = "_get_addl_params" =>
            /\ lacking <=> ret = Raise("StopIteration")
            /\ ~lacking =>
                /\ ret.st = "ok"
                /\ Len(ret.params) = 1 + Len(built.filters)
                /\ \A i \in 1..Len(built.filters) :
                    LET f == ret.params[i + 1]
                        page_f == built.filters[i]
                    IN  /\ f.kind = "Filter" /\ f.title = page_f.title
                        /\ f.title \in sh =>
                               \E l \in LabelsCoded(page_f.select, "0") : f.default = PySet({l})
                        /\ f.title \notin sh => f.default = None
        /\ (call = "qp_kv" /\ arg.param.kind = "Filter") =>
            IF arg.param.title \in sh
            THEN ret = KV(PyStr(arg.param.name), PySet({"0"}))
            ELSE ret = NoKV

C22_Witness ==
    /\ call = "qp_kv" /\ arg.value = None
    /\ built.first_row = <<FALSE, TRUE>>
    /\ arg.param.title = "Part Status"
    /\ arg.param.default = PySet({"Obsolete"})
    /\ self.params[2].title = "Packaging" /\ self.params[2].default = None
    /\ ret = KV(PyStr("pv1989"), PySet({"0"}))

====
